---- MODULE Spec2Model ----
(***************************************************************************)
(* State-machine model of currency_converter.py: the session loop, the     *)
(* symbol fetcher, the search/browse menu, the currency selector, the      *)
(* amount prompt and the converter.  Strings are sequences of one-character *)
(* strings so that strip(), lower(), upper() and the `in` substring test   *)
(* are computed, not assumed.                                               *)
(***************************************************************************)
EXTENDS Integers, Sequences, FiniteSets, TLC

\* ------------------------------------------------------------------ bounds
\* Deepest chain of pending search_symbols invocations explored.
MaxDepth == 3

\* ------------------------------------------------------- python str methods
UpperChars == <<"A","B","C","D","E","F","G","H","I","J","K","L","M",
                "N","O","P","Q","R","S","T","U","V","W","X","Y","Z">>
LowerChars == <<"a","b","c","d","e","f","g","h","i","j","k","l","m",
                "n","o","p","q","r","s","t","u","v","w","x","y","z">>

lowerChar(c) ==
    IF \E i \in 1..26 : UpperChars[i] = c
    THEN LowerChars[CHOOSE i \in 1..26 : UpperChars[i] = c]
    ELSE c

upperChar(c) ==
    IF \E i \in 1..26 : LowerChars[i] = c
    THEN UpperChars[CHOOSE i \in 1..26 : LowerChars[i] = c]
    ELSE c

\* str.lower()
lower(s) == [i \in 1..Len(s) |-> lowerChar(s[i])]

\* str.upper()
upper(s) == [i \in 1..Len(s) |-> upperChar(s[i])]

IsSpace(c) == c \in {" ", "\t"}

RECURSIVE lstrip(_)
lstrip(s) == IF s # <<>> /\ IsSpace(Head(s)) THEN lstrip(Tail(s)) ELSE s

RECURSIVE rstrip(_)
rstrip(s) ==
    IF s # <<>> /\ IsSpace(s[Len(s)]) THEN rstrip(SubSeq(s, 1, Len(s) - 1)) ELSE s

\* str.strip()
strip(s) == rstrip(lstrip(s))

\* Python's  k in s  on strings: k is a contiguous substring of s.
contains(k, s) ==
    \E i \in 0..(Len(s) - Len(k)) : SubSeq(s, i + 1, i + Len(k)) = k

\* ------------------------------------------------------------ python values
\* None, for a local that holds a string otherwise.
None == <<"None">>

\* None / float values.
NoneVal == [kind |-> "none", neg |-> FALSE, mant |-> 0, scale |-> 0]
NaN     == [kind |-> "nan",  neg |-> FALSE, mant |-> 0, scale |-> 0]
Inf(n)  == [kind |-> "inf",  neg |-> n,     mant |-> 0, scale |-> 0]
\* the finite value (-1)^n * m / 10^sc
Fin(n, m, sc) == [kind |-> "fin", neg |-> n, mant |-> m, scale |-> sc]

Digits == <<"0","1","2","3","4","5","6","7","8","9">>
IsDigit(c) == \E i \in 1..10 : Digits[i] = c
DigitVal(c) == (CHOOSE i \in 1..10 : Digits[i] = c) - 1

RECURSIVE DigitsValue(_)
\* value of the digits of s read as one integer, the decimal point ignored
DigitsValue(s) ==
    IF s = <<>> THEN 0
    ELSE LET init == SubSeq(s, 1, Len(s) - 1)
             c    == s[Len(s)]
         IN IF c = "." THEN DigitsValue(init)
            ELSE 10 * DigitsValue(init) + DigitVal(c)

\* [digits][.][digits] with at least one digit
IsDecimal(b) ==
    /\ \A i \in 1..Len(b) : IsDigit(b[i]) \/ b[i] = "."
    /\ Cardinality({i \in 1..Len(b) : b[i] = "."}) <= 1
    /\ \E i \in 1..Len(b) : IsDigit(b[i])

FracDigits(b) ==
    IF \E i \in 1..Len(b) : b[i] = "."
    THEN Len(b) - (CHOOSE i \in 1..Len(b) : b[i] = ".")
    ELSE 0

ValueError == [kind |-> "ValueError", neg |-> FALSE, mant |-> 0, scale |-> 0]

\* float(text) for text of the form  ws [sign] (decimal | nan | inf | infinity) ws ;
\* any other text of the modelled inputs raises ValueError.
float(text) ==
    LET s    == strip(text)
        sgn  == s # <<>> /\ Head(s) \in {"+", "-"}
        n    == s # <<>> /\ Head(s) = "-"
        body == IF sgn THEN Tail(s) ELSE s
        lb   == lower(body)
    IN  IF lb = <<"n","a","n">> THEN NaN
        ELSE IF lb \in {<<"i","n","f">>, <<"i","n","f","i","n","i","t","y">>} THEN Inf(n)
        ELSE IF IsDecimal(body) THEN Fin(n, DigitsValue(body), FracDigits(body))
        ELSE ValueError

\* amount <= 0  on floats: false for nan
LeqZero(a) ==
    \/ a.kind = "fin" /\ (a.neg \/ a.mant = 0)
    \/ a.kind = "inf" /\ a.neg

\* ------------------------------------------------------------------- dicts
\* A dict is a function from keys to values; {} is the empty function.
EmptyDict == <<>>

\* bool(d) for a dict
Truthy(d) == DOMAIN d # {}

\* d.get(k, default)
Get(d, k, default) == IF k \in DOMAIN d THEN d[k] ELSE default

\* A reference to a dict object: obj tells which object it is (Python's `is`
\* compares obj), d is the object's content.
Ref(o, m) == [obj |-> o, d |-> m]
NoRef == Ref("none", EmptyDict)

\* ------------------------------------------------------------ input domains
USD == <<"U","S","D">>
EGP == <<"E","G","P">>
EUR == <<"E","U","R">>

SymbolsA == (USD :> <<"U","n","i","t","e","d"," ","S","t","a","t","e","s"," ","D","o","l","l","a","r">>)
         @@ (EGP :> <<"E","g","y","p","t","i","a","n"," ","P","o","u","n","d">>)
SymbolsB == (EUR :> <<"E","u","r","o">>)
         @@ (USD :> <<"U","S"," ","D","o","l","l","a","r">>)

\* what the operator may type at the search/all and retry/all menus
MenuLines == { <<"s","e","a","r","c","h">>, <<"S","E","A","R","C","H"," ">>,
               <<"a","l","l">>, <<" ","A","l","l">>,
               <<"r","e","t","r","y">>, <<"R","e","t","r","y"," ">>,
               <<"x">>, <<>> }

\* what the operator may type as a search keyword
KeywordLines == { <<"u","s","d">>, <<" ","E","G","P">>, <<"e","u","r">>,
                  <<"z","z">>, <<>>, <<"d"," ">> }

\* what the operator may type at a y/n question
YesNoLines == { <<"y">>, <<" ","Y"," ">>, <<"n">>, <<"y","e","s">> }

\* what the operator may type as a currency code
CodeLines == { <<" ","u","s","d"," ">>, <<"U","S","D">>, <<"e","g","p">>,
               <<"E","U","R">>, <<"x","y","z">>, <<>> }

\* what the operator may type as an amount
AmountLines == { <<"a","b","c">>, <<"-","5">>, <<"1","0","0">>, <<" ","0",".","5","0"," ">>,
                 <<"0">>, <<"0",".","0">>, <<"n","a","n">>, <<"-","i","n","f">>,
                 <<"I","n","f","i","n","i","t","y">>, <<>> }

\* what the service may answer
Response(e, st, b) == [exc |-> e, status_code |-> st, body |-> b]
NoBody     == [kind |-> "none",    data |-> EmptyDict]
NonJson    == [kind |-> "nonjson", data |-> EmptyDict]
JsonArray  == [kind |-> "array",   data |-> EmptyDict]
JsonObject(dt) == [kind |-> "object", data |-> dt]
NoResponse == Response(FALSE, 0, NoBody)

ErrorText == <<"i","n","v","a","l","i","d"," ","c","o","d","e">>

ErrorStatuses == {401, 403, 404, 429, 500, 418}

SymbolBodies ==
    { NonJson, JsonArray,
      JsonObject([success |-> TRUE, symbols |-> SymbolsA]),
      JsonObject([symbols |-> SymbolsB]),
      JsonObject([success |-> FALSE, error |-> ErrorText]),
      JsonObject([success |-> TRUE]),
      JsonObject([success |-> TRUE, symbols |-> EmptyDict]) }

ConvertBodies ==
    { NonJson, JsonArray,
      JsonObject([success |-> TRUE, result |-> Fin(FALSE, 4850, 2)]),
      JsonObject([result |-> Fin(FALSE, 0, 1)]),
      JsonObject([success |-> FALSE, error |-> ErrorText]),
      JsonObject([success |-> TRUE]),
      JsonObject([success |-> TRUE, result |-> NoneVal]) }

Responses(bodies) ==
    {Response(TRUE, 0, NoBody)}
      \cup {Response(FALSE, st, NoBody) : st \in ErrorStatuses}
      \cup {Response(FALSE, 200, b) : b \in bodies}

\* ----------------------------------------------------------- pure functions
\* handle_error: the message printed for a non-200 status
handle_error(code) ==
    IF code = 401 THEN "Unauthorized"
    ELSE IF code = 403 THEN "Forbidden"
    ELSE IF code = 404 THEN "Not Found"
    ELSE IF code = 429 THEN "Too Many Requests"
    ELSE IF code >= 500 THEN "Server Error"
    ELSE "Unexpected Error"

Returned(v, m) == [raised |-> FALSE, value |-> v, msg |-> m]
Raised(v)      == [raised |-> TRUE,  value |-> v, msg |-> ""]

\* get_symbols, given the outcome of requests.get: the value returned and the
\* message printed, or raised when response.json() or data.get raises.
get_symbols(r) ==
    IF r.exc THEN Returned(EmptyDict, "Network error")
    ELSE IF r.status_code # 200 THEN Returned(EmptyDict, handle_error(r.status_code))
    ELSE IF r.body.kind # "object" THEN Raised(EmptyDict)
    ELSE IF ~Get(r.body.data, "success", TRUE) THEN Returned(EmptyDict, "API Error")
    ELSE Returned(Get(r.body.data, "symbols", EmptyDict), "")

\* convert_currency, given the outcome of requests.get
convert_currency(r) ==
    IF r.exc THEN Returned(NoneVal, "Network error")
    ELSE IF r.status_code # 200 THEN Returned(NoneVal, handle_error(r.status_code))
    ELSE IF r.body.kind # "object" THEN Raised(NoneVal)
    ELSE IF ~Get(r.body.data, "success", TRUE) THEN Returned(NoneVal, "API Error")
    ELSE Returned(Get(r.body.data, "result", NoneVal), "")

\* the comprehension with the code compared as it is, not lower-cased
matchesMut(syms, keyword) ==
    LET keys == {c \in DOMAIN syms :
                    contains(keyword, c) \/ contains(keyword, lower(syms[c]))}
    IN  [c \in keys |-> syms[c]]
\* the dict comprehension of search_symbols
matches(syms, keyword) ==
    LET keys == {c \in DOMAIN syms :
                    contains(keyword, lower(c)) \/ contains(keyword, lower(syms[c]))}
    IN  [c \in keys |-> syms[c]]

\* a selector that takes any non-empty text
acceptsMut(cur, displayed_dict) == cur # <<>>
\* choose_currency_from: is the normalised text accepted
accepts(cur, displayed_dict) == cur \in DOMAIN displayed_dict

\* main without the early return
afterFetchMut(syms) == "search_choice"
\* main: where control goes once get_symbols has returned
afterFetch(syms) == IF ~Truthy(syms) THEN "again" ELSE "search_choice"

\* main without the to side
afterFromMut == "get_amount"
\* main: where control goes once the from-currency is chosen
afterFrom == "search_choice"

\* the test written  if result:  which a result of zero fails
shouldPrintMut(res) == res.kind # "none" /\ ~(res.kind = "fin" /\ res.mant = 0)
\* main: is the result line printed
shouldPrint(res) == res.kind # "none"

\* -------------------------------------------------------------------- state
VARIABLES
    pc,              \* where the process is
    side,            \* which currency main is selecting: "from" or "to"
    symbols,         \* main: symbols
    stack,           \* pending search_symbols invocations, innermost last
    searched,        \* keywords entered in the search_symbols call main is in or has
                     \* just left (forgotten once the selector has returned)
    displayed,       \* main: displayed
    use_displayed,   \* main: use_displayed
    from_currency,   \* main: from_currency
    displayed2,      \* main: displayed2
    use_displayed2,  \* main: use_displayed2
    to_currency,     \* main: to_currency
    displayed_dict,  \* choose_currency_from: displayed_dict
    amount,          \* main: amount
    result,          \* main: result
    request,         \* the last request sent in this pass
    response,        \* the outcome of that request
    msg,             \* the last message get_symbols / convert_currency printed in this pass
    prompted,        \* has main prompted the operator in this pass
    fetches,         \* symbol requests sent in this pass
    conversions,     \* conversion requests sent in this pass
    printed          \* has the result line been printed in this pass

mainLocals == <<symbols, displayed, use_displayed, from_currency, displayed2,
                use_displayed2, to_currency, amount, result>>
network == <<request, response, msg, fetches, conversions>>
vars == <<pc, side, stack, searched, displayed_dict, mainLocals, network, prompted, printed>>

NoRequest == [endpoint |-> "none", to |-> None, from |-> None, amount |-> NoneVal]
NewFrame == [choice |-> None, keyword |-> None]

SEARCH == <<"s","e","a","r","c","h">>
ALL    == <<"a","l","l">>
RETRY  == <<"r","e","t","r","y">>
YES    == <<"y">>

\* the state at the start of a pass: main is about to call get_symbols
PassStart ==
    /\ pc = "get_symbols"
    /\ side = "from"
    /\ symbols = EmptyDict
    /\ stack = <<>>
    /\ searched = <<>>
    /\ displayed = NoRef
    /\ use_displayed = None
    /\ from_currency = None
    /\ displayed2 = NoRef
    /\ use_displayed2 = None
    /\ to_currency = None
    /\ displayed_dict = EmptyDict
    /\ amount = NoneVal
    /\ result = NoneVal
    /\ request = NoRequest
    /\ response = NoResponse
    /\ msg = ""
    /\ prompted = FALSE
    /\ fetches = 0
    /\ conversions = 0
    /\ printed = FALSE

Init == PassStart

\* main is called again: every local of the previous pass is gone
NewPass ==
    /\ pc' = "get_symbols"
    /\ side' = "from"
    /\ symbols' = EmptyDict
    /\ stack' = <<>>
    /\ searched' = <<>>
    /\ displayed' = NoRef
    /\ use_displayed' = None
    /\ from_currency' = None
    /\ displayed2' = NoRef
    /\ use_displayed2' = None
    /\ to_currency' = None
    /\ displayed_dict' = EmptyDict
    /\ amount' = NoneVal
    /\ result' = NoneVal
    /\ request' = NoRequest
    /\ response' = NoResponse
    /\ msg' = ""
    /\ prompted' = FALSE
    /\ fetches' = 0
    /\ conversions' = 0
    /\ printed' = FALSE

\* ------------------------------------------------------------------ actions
\* main: symbols = get_symbols(); if not symbols: return; search_symbols(symbols)
GetSymbols ==
    /\ pc = "get_symbols"
    /\ \E r \in Responses(SymbolBodies) :
        LET o == get_symbols(r) IN
        /\ request' = [NoRequest EXCEPT !.endpoint = "symbols"]
        /\ response' = r
        /\ fetches' = fetches + 1
        /\ msg' = o.msg
        /\ IF o.raised
           THEN /\ pc' = "crashed"
                /\ UNCHANGED <<symbols, stack>>
           ELSE /\ symbols' = o.value
                /\ pc' = afterFetch(o.value)
                /\ stack' = IF pc' = "search_choice" THEN <<NewFrame>> ELSE <<>>
    /\ UNCHANGED <<side, searched, displayed_dict, displayed, use_displayed,
                   from_currency, displayed2, use_displayed2, to_currency,
                   amount, result, conversions, prompted, printed>>

\* search_symbols returns value to main, through every pending invocation;
\* main then either asks the restriction question or calls choose_currency_from.
ReturnFromSearch(value) ==
    /\ stack' = <<>>
    /\ IF side = "from"
       THEN /\ displayed' = value
            /\ pc' = IF value.obj # "symbols" THEN "use_displayed" ELSE "choose_from"
            /\ UNCHANGED displayed2
       ELSE /\ displayed2' = value
            /\ pc' = IF value.obj # "symbols" THEN "use_displayed2" ELSE "choose_to"
            /\ UNCHANGED displayed
    /\ displayed_dict' = IF value.obj # "symbols" THEN displayed_dict ELSE symbols

\* search_symbols: the search/all prompt
SearchChoice ==
    /\ pc = "search_choice"
    /\ \E line \in MenuLines :
        LET choice == lower(strip(line)) IN
        /\ prompted' = TRUE
        /\ IF choice \in {SEARCH, ALL}
           THEN IF choice = SEARCH
                THEN /\ stack' = [stack EXCEPT ![Len(stack)].choice = choice]
                     /\ pc' = "search_keyword"
                     /\ UNCHANGED <<displayed, displayed2, displayed_dict>>
                ELSE ReturnFromSearch(Ref("symbols", symbols))
           ELSE UNCHANGED <<pc, stack, displayed, displayed2, displayed_dict>>
    /\ UNCHANGED <<side, searched, symbols, use_displayed, from_currency,
                   use_displayed2, to_currency, amount, result, network, printed>>

\* search_symbols: the keyword prompt and the filter
SearchKeyword ==
    /\ pc = "search_keyword"
    /\ \E line \in KeywordLines :
        LET keyword == lower(strip(line))
            m       == matches(symbols, keyword)
        IN
        /\ prompted' = TRUE
        /\ searched' = Append(searched, keyword)
        /\ IF Truthy(m)
           THEN ReturnFromSearch(Ref("matches", m))
           ELSE /\ stack' = [stack EXCEPT ![Len(stack)].keyword = keyword]
                /\ pc' = "search_nomatch"
                /\ UNCHANGED <<displayed, displayed2, displayed_dict>>
    /\ UNCHANGED <<side, symbols, use_displayed, from_currency,
                   use_displayed2, to_currency, amount, result, network, printed>>

\* search_symbols: the retry/all prompt after a search without matches
SearchNoMatch ==
    /\ pc = "search_nomatch"
    /\ \E line \in MenuLines :
        LET nxt == lower(strip(line)) IN
        /\ prompted' = TRUE
        /\ IF nxt = RETRY
           THEN /\ Len(stack) < MaxDepth
                /\ stack' = Append(stack, NewFrame)
                /\ pc' = "search_choice"
                /\ UNCHANGED <<displayed, displayed2, displayed_dict>>
           ELSE IF nxt = ALL
                THEN ReturnFromSearch(Ref("symbols", symbols))
                ELSE UNCHANGED <<pc, stack, displayed, displayed2, displayed_dict>>
    /\ UNCHANGED <<side, searched, symbols, use_displayed, from_currency,
                   use_displayed2, to_currency, amount, result, network, printed>>

\* main: the restriction question of the from side
UseDisplayed ==
    /\ pc = "use_displayed"
    /\ \E line \in YesNoLines :
        /\ use_displayed' = lower(strip(line))
        /\ displayed_dict' = IF use_displayed' = YES THEN displayed.d ELSE symbols
    /\ prompted' = TRUE
    /\ pc' = "choose_from"
    /\ UNCHANGED <<side, stack, searched, symbols, displayed, from_currency, displayed2,
                   use_displayed2, to_currency, amount, result, network, printed>>

\* choose_currency_from for the from side; main then calls search_symbols again
ChooseFrom ==
    /\ pc = "choose_from"
    /\ prompted' = TRUE
    /\ \E line \in CodeLines :
        LET cur == upper(strip(line)) IN
        IF accepts(cur, displayed_dict)
        THEN /\ from_currency' = cur
             /\ pc' = afterFrom
             /\ side' = "to"
             /\ stack' = IF pc' = "search_choice" THEN <<NewFrame>> ELSE <<>>
             /\ searched' = <<>>
        ELSE UNCHANGED <<from_currency, pc, side, stack, searched>>
    /\ UNCHANGED <<symbols, displayed, use_displayed, displayed2, use_displayed2,
                   to_currency, displayed_dict, amount, result, network, printed>>

\* main: the restriction question of the to side
UseDisplayed2 ==
    /\ pc = "use_displayed2"
    /\ \E line \in YesNoLines :
        /\ use_displayed2' = lower(strip(line))
        /\ displayed_dict' = IF use_displayed2' = YES THEN displayed2.d ELSE symbols
    /\ prompted' = TRUE
    /\ pc' = "choose_to"
    /\ UNCHANGED <<side, stack, searched, symbols, displayed, use_displayed, from_currency,
                   displayed2, to_currency, amount, result, network, printed>>

\* choose_currency_from for the to side
ChooseTo ==
    /\ pc = "choose_to"
    /\ prompted' = TRUE
    /\ \E line \in CodeLines :
        LET cur == upper(strip(line)) IN
        IF accepts(cur, displayed_dict)
        THEN /\ to_currency' = cur
             /\ pc' = "get_amount"
             /\ searched' = <<>>
        ELSE UNCHANGED <<to_currency, pc, searched>>
    /\ UNCHANGED <<side, stack, symbols, displayed, use_displayed, from_currency,
                   displayed2, use_displayed2, displayed_dict, amount, result,
                   network, printed>>

\* get_amount
GetAmount ==
    /\ pc = "get_amount"
    /\ prompted' = TRUE
    /\ \E line \in AmountLines :
        LET a == float(line) IN
        IF a = ValueError THEN UNCHANGED <<amount, pc>>
        ELSE IF LeqZero(a) THEN UNCHANGED <<amount, pc>>
        ELSE /\ amount' = a
             /\ pc' = "convert"
    /\ UNCHANGED <<side, stack, searched, symbols, displayed, use_displayed, from_currency,
                   displayed2, use_displayed2, to_currency, displayed_dict, result,
                   network, printed>>

\* main: result = convert_currency(from_currency, to_currency, amount)
Convert ==
    /\ pc = "convert"
    /\ \E r \in Responses(ConvertBodies) :
        LET o == convert_currency(r) IN
        /\ request' = [endpoint |-> "convert", to |-> to_currency,
                       from |-> from_currency, amount |-> amount]
        /\ response' = r
        /\ conversions' = conversions + 1
        /\ msg' = o.msg
        /\ IF o.raised
           THEN /\ pc' = "crashed"
                /\ UNCHANGED result
           ELSE /\ result' = o.value
                /\ pc' = "print"
    /\ UNCHANGED <<side, stack, searched, symbols, displayed, use_displayed, from_currency,
                   displayed2, use_displayed2, to_currency, displayed_dict, amount,
                   fetches, prompted, printed>>

\* main: if result is not None: print(...)
PrintResult ==
    /\ pc = "print"
    /\ printed' = shouldPrint(result)
    /\ pc' = "again"
    /\ UNCHANGED <<side, stack, searched, displayed_dict, mainLocals, network, prompted>>

\* the loop of the script: run main again on "y", leave otherwise
Again ==
    /\ pc = "again"
    /\ \E line \in YesNoLines :
        LET again == lower(strip(line)) IN
        IF again # YES
        THEN /\ pc' = "done"
             /\ UNCHANGED <<side, stack, searched, displayed_dict, mainLocals, network,
                            prompted, printed>>
        ELSE NewPass

Next ==
    \/ GetSymbols
    \/ SearchChoice
    \/ SearchKeyword
    \/ SearchNoMatch
    \/ UseDisplayed
    \/ ChooseFrom
    \/ UseDisplayed2
    \/ ChooseTo
    \/ GetAmount
    \/ Convert
    \/ PrintResult
    \/ Again

Spec == Init /\ [][Next]_vars

\* --------------------------------------------------------------- properties
Keys(d) == DOMAIN d

\* C1: the code the selector returns is a key of the set it was given: the
\* from-code and the to-code are keys of the fetched symbols, also when they
\* reach the conversion request, and after a "y" to the restriction question
\* the code is a key of the subset the search of that side returned.
C1_SelectedCodeAllowed ==
    /\ from_currency # None =>
          /\ from_currency \in Keys(symbols)
          /\ use_displayed = YES => from_currency \in Keys(displayed.d)
    /\ to_currency # None =>
          /\ to_currency \in Keys(symbols)
          /\ use_displayed2 = YES => to_currency \in Keys(displayed2.d)
    /\ request.endpoint = "convert" =>
          /\ request.from \in Keys(symbols)
          /\ request.to \in Keys(symbols)

\* a pass where the operator typed a code in another case and with blanks,
\* restricted to a proper subset, and both codes reached the converter
C1_Witness ==
    /\ request.endpoint = "convert"
    /\ use_displayed = YES
    /\ Keys(displayed.d) # Keys(symbols)
    /\ from_currency = USD
    /\ use_displayed2 # YES
    /\ displayed2.obj = "matches"
    /\ to_currency \notin Keys(displayed2.d)

\* C2: the amount get_amount returns is strictly greater than zero.
C2_AmountPositive ==
    amount # NoneVal =>
        \/ amount.kind = "fin" /\ ~amount.neg /\ amount.mant > 0
        \/ amount.kind = "inf" /\ ~amount.neg

\* main has just got a mapping back from search_symbols
AfterSearch == pc \in {"use_displayed", "choose_from", "use_displayed2", "choose_to"}

\* the mapping search_symbols returned to main
SearchResult == IF side = "from" THEN displayed ELSE displayed2

\* the entry of code c contains keyword k, case-insensitively
EntryMatches(c, k) == contains(k, lower(c)) \/ contains(k, lower(symbols[c]))

\* C3 as stated: whatever keywords were entered in search mode, the mapping
\* search_symbols returns holds only entries that contain each of them.
C3_OnlyMatchesReturned ==
    AfterSearch =>
        \A i \in 1..Len(searched) :
            \A c \in Keys(SearchResult.d) : EntryMatches(c, searched[i])

\* C3 amended: when the last keyword entered (trimmed, lower-cased) matches at
\* least one entry, the mapping returned is a fresh dict of exactly the entries
\* whose code or name contains it; when it matches none, the mapping returned
\* is the full symbols dict.
C3_MatchesOrAll ==
    (AfterSearch /\ searched # <<>>) =>
        LET k == searched[Len(searched)]
            M == {c \in Keys(symbols) : EntryMatches(c, k)}
        IN  IF M # {}
            THEN /\ SearchResult.obj = "matches"
                 /\ Keys(SearchResult.d) = M
                 /\ \A c \in M : SearchResult.d[c] = symbols[c]
            ELSE SearchResult = Ref("symbols", symbols)

\* a search without matches, "retry", then a keyword that matches a proper subset
C3_Witness ==
    /\ AfterSearch
    /\ Len(searched) >= 2
    /\ SearchResult.obj = "matches"
    /\ Keys(SearchResult.d) # Keys(symbols)
    /\ Keys(SearchResult.d) # {}

\* C4: when get_symbols returns an empty mapping the pass is over: nothing is
\* prompted in it, no search is started and no conversion request is sent.
C4_EmptyFetchAborts ==
    (fetches = 1 /\ pc \notin {"get_symbols", "crashed"} /\ ~Truthy(symbols)) =>
        /\ pc \in {"again", "done"}
        /\ ~prompted
        /\ stack = <<>>
        /\ conversions = 0
        /\ request.endpoint = "symbols"

\* the fetch was answered 401 and the pass is over
C4_Witness ==
    /\ pc = "again"
    /\ fetches = 1
    /\ response.status_code = 401
    /\ msg = "Unauthorized"
    /\ ~Truthy(symbols)
    /\ ~prompted

\* the request failed: no answer, a status other than 200, a body that is not
\* a JSON object, or a success flag that is false
Failed(r) ==
    \/ r.exc
    \/ r.status_code # 200
    \/ r.body.kind # "object"
    \/ ~Get(r.body.data, "success", TRUE)

\* C5: whatever way a request fails, the operation prints a message and
\* returns {} (get_symbols) or None (convert_currency); nothing is raised.
C5_FailureIsReportedNotRaised ==
    (request.endpoint # "none" /\ Failed(response)) =>
        /\ pc # "crashed"
        /\ msg # ""
        /\ request.endpoint = "symbols" => symbols = EmptyDict
        /\ request.endpoint = "convert" => result = NoneVal

\* C6: the process ends only at the "convert another amount?" prompt, every
\* pass that ends reaches that prompt, and "y" starts a pass with a new fetch.
C6_EndsOnlyAtAgainPrompt ==
    [][ /\ (pc' \in {"done", "crashed"} /\ pc # pc') => pc = "again"
        /\ (pc = "again" /\ pc' # pc) => (pc' = "done" \/ (pc' = "get_symbols" /\ fetches' = 0))
      ]_vars

\* C7: the result line is printed exactly when convert_currency returned a
\* value other than None; when it returned None the pass ends unprinted.
C7_PrintedIffResult ==
    /\ printed => (conversions = 1 /\ result # NoneVal)
    /\ (conversions = 1 /\ pc \in {"again", "done"}) => (printed <=> result # NoneVal)
    /\ (conversions = 1 /\ pc # "crashed" /\ result = NoneVal) =>
            (~printed /\ pc \in {"print", "again", "done"})

\* the service answered 200 with success false: the pass is over, nothing printed
C7_Witness ==
    /\ pc = "again"
    /\ conversions = 1
    /\ response.status_code = 200
    /\ msg = "API Error"
    /\ result = NoneVal
    /\ ~printed

\* C8: the restriction question is asked exactly when the mapping
\* search_symbols returned differs from the full symbols mapping.
C8_AskedIffDiffers ==
    /\ pc = "use_displayed" => displayed.d # symbols
    /\ pc = "use_displayed2" => displayed2.d # symbols
    /\ (pc = "choose_from" /\ use_displayed = None) => displayed.d = symbols
    /\ (pc = "choose_to" /\ use_displayed2 = None) => displayed2.d = symbols

\* C9: answering "retry" does not add to what the search component holds: the
\* pending invocations do not grow, and none keeps a failed keyword.
C9_RetryKeepsStateBounded ==
    [][ pc = "search_nomatch" =>
            /\ Len(stack') <= Len(stack)
            /\ \A i \in 1..Len(stack') : pc' = "search_choice" => stack'[i].keyword = None
      ]_vars

\* the position of a step in the order of a pass
Rank(p, sd) ==
    CASE p = "get_symbols" -> 0
      [] p \in {"search_choice", "search_keyword", "search_nomatch"} ->
            IF sd = "from" THEN 1 ELSE 3
      [] p \in {"use_displayed", "choose_from"} -> 2
      [] p \in {"use_displayed2", "choose_to"} -> 4
      [] p = "get_amount" -> 5
      [] p = "convert" -> 6
      [] p = "print" -> 7
      [] p = "again" -> 8
      [] OTHER -> 9

\* C10: a pass goes through fetch, search, selector, search, selector, amount,
\* converter, print in that order, one step at a time and never backwards; one
\* fetch request per pass; at most one conversion request, sent with the codes
\* and the amount the selectors and the amount prompt returned.
C10_LinearPass ==
    /\ [][ \/ Rank(pc', side') \in {Rank(pc, side), Rank(pc, side) + 1}
           \/ pc = "get_symbols" /\ pc' = "again" /\ ~Truthy(symbols')
           \/ pc = "again" /\ pc' = "get_symbols"
           \/ pc \in {"get_symbols", "convert"} /\ pc' = "crashed"
         ]_vars
    /\ [](/\ fetches = (IF pc = "get_symbols" THEN 0 ELSE 1)
          /\ conversions = (IF Rank(pc, side) >= 7 /\ request.endpoint = "convert" THEN 1 ELSE 0)
          /\ request.endpoint = "convert" =>
                /\ Rank(pc, side) >= 7
                /\ from_currency # None /\ request.from = from_currency
                /\ to_currency # None /\ request.to = to_currency
                /\ amount # NoneVal /\ request.amount = amount)

\* a pass that went all the way and printed the result
C10_Witness ==
    /\ pc = "again"
    /\ fetches = 1
    /\ conversions = 1
    /\ printed
    /\ from_currency # to_currency

====
